---- MODULE Spec2Model ----
(***************************************************************************)
(* Model of userapi/storage/postgres/stats_table.go: the user_daily_visits *)
(* ledger and its periodic update (updateUserDailyVisits, startTimers),    *)
(* and the statistics queries (r30Users, r30UsersV2, UserStatistics).      *)
(*                                                                         *)
(* Tables are sets of rows.  Timestamps are integers, one unit an hour     *)
(* (the BIGINT columns hold milliseconds); one day is Day units.  User     *)
(* agents are sequences of one-character strings so that LIKE, LOWER and   *)
(* MAX are computed.  A nullable text column holds <<>> for NULL and       *)
(* <<text>> otherwise.                                                     *)
(***************************************************************************)
EXTENDS Integers, Sequences, FiniteSets, TLC

VARIABLES
    now,        \* the wall clock read by time.Now()
    zone,       \* time.Local: the offsets from UTC of the host's time zone
    object,     \* what NewPostgresStatsTable left behind (see Init)
    lastUpdate, \* statsStatements.lastUpdate
    accounts,   \* table account_accounts
    devices,    \* table device_devices
    visits,     \* table user_daily_visits
    timers,     \* pending time.AfterFunc timers (see Timer)
    runs,       \* invocations of updateStatsFunc in progress
    hist,       \* history of the runs that returned (see NoHist)
    stats       \* the UserStatistics call followed (see NoStats)

vars == <<now, zone, object, lastUpdate, accounts, devices, visits, timers,
          runs, hist, stats>>

-----------------------------------------------------------------------------
(* Bounds and program constants, in hours *)

\* the clock advances MaxTime half days at most
MaxTime == 3

Day == 24

HalfDay == Day \div 2

\* time.Minute*5, less than one unit
InitialDelay == 1

\* time.Hour*3
Interval == 3

AccountTypeUser == 1

AccountTypeGuest == 2

AccountTypeAdmin == 3

AccountTypeAppService == 4

\* the NULL of a nullable text column
NULL == <<>>

Users == {"u1", "u2"}

\* the devices whose activity is recorded while the model runs
DeviceKeys == {<<"u1", "d1">>, <<"u1", "d2">>}

-----------------------------------------------------------------------------
(* Text: LOWER(), LIKE '%pat%' and the ordering used by MAX() *)

Uppers == <<"A","B","C","D","E","F","G","H","I","J","K","L","M",
            "N","O","P","Q","R","S","T","U","V","W","X","Y","Z">>

Lowers == <<"a","b","c","d","e","f","g","h","i","j","k","l","m",
            "n","o","p","q","r","s","t","u","v","w","x","y","z">>

LowerChar(c) ==
    IF \E i \in 1..Len(Uppers) : Uppers[i] = c
    THEN Lowers[CHOOSE i \in 1..Len(Uppers) : Uppers[i] = c]
    ELSE c

Lower(s) == [i \in 1..Len(s) |-> LowerChar(s[i])]

\* s LIKE '%pat%' (pat holds no wildcard): pat occurs in s, letter case kept
Like(s, pat) ==
    \E k \in 0..(Len(s) - Len(pat)) :
        \A j \in 1..Len(pat) : s[k + j] = pat[j]

\* the printable ASCII characters in the order of their bytes, from 32 on
\* (the grave accent, byte 96, cannot be written in a string of this
\* language: its place is kept)
Ascii ==
    <<" ","!","\"","#","$","%","&","'","(",")","*","+",",","-",".","/",
      "0","1","2","3","4","5","6","7","8","9",":",";","<","=",">","?",
      "@","A","B","C","D","E","F","G","H","I","J","K","L","M","N","O",
      "P","Q","R","S","T","U","V","W","X","Y","Z","[","\\","]","^","_",
      "grave","a","b","c","d","e","f","g","h","i","j","k","l","m","n","o",
      "p","q","r","s","t","u","v","w","x","y","z","{","|","}","~">>

\* the byte of a printable ASCII character (user agents are ASCII here)
CharCode(c) == 31 + (CHOOSE i \in 1..Len(Ascii) : Ascii[i] = c)

\* s <= t in the order of the text column under the collation "C" (byte
\* order).  The statement names no collation, the database's applies; the
\* tables drawn hold one row per (localpart, device_id), so MAX() is taken
\* over equal values and the collation does not show.
StrLeq(s, t) ==
    \/ s = t
    \/ \E k \in 1..Len(t) :
          /\ \A j \in 1..(k - 1) : j <= Len(s) /\ s[j] = t[j]
          /\ \/ k = Len(s) + 1
             \/ k <= Len(s) /\ CharCode(s[k]) < CharCode(t[k])

MaxStr(S) == CHOOSE t \in S : \A s \in S : StrLeq(s, t)

UA_iOS == <<"i","O","S">>

UA_Mozilla == <<"M","o","z","i","l","l","a">>

\* a client identifier no pattern of either classifier matches
UA_Curl == <<"c","u","r","l">>

UserAgents == {UA_iOS, UA_Mozilla}

\* the client identifiers a device reports
AgentsOf(k) == IF k = <<"u1", "d1">> THEN UserAgents ELSE {UA_Mozilla}

-----------------------------------------------------------------------------
(* time.Local and the calendar arithmetic of time.Time.AddDate *)

\* A time zone with at most one change of offset: before the instant change
\* local time is UTC + before, from it on UTC + after.
UTC == [change |-> 0, before |-> 0, after |-> 0]

\* the clocks go back one hour at c (end of summer time)
Autumn(c) == [change |-> c, before |-> 2, after |-> 1]

\* the offset of local time from UTC at the instant t
Off(z, t) == IF t >= z.change THEN z.after ELSE z.before

\* time.Date(..., loc) for the local reading w (counted as if it were UTC):
\* the offset in force at the instant w is tried first, and the offset at
\* the instant found is taken when that instant lies on the other side of
\* the change.
GoDate(z, w) ==
    LET o == Off(z, w)
        u == w - o
    IN  IF o = 0 THEN w
        ELSE IF (u >= z.change) = (w >= z.change) THEN u
             ELSE w - Off(z, u)

\* t.AddDate(0, 0, days) for a t whose location is time.Local: the instant
\* with the local reading of t, days calendar days away
AddDate(z, t, days) == GoDate(z, t + Off(z, t) + days * Day)

\* gomatrixserverlib.AsTimestamp(t) is the uint64 of the milliseconds since
\* 1970: of a time before 1970 it has the high bit set, and database/sql
\* refuses such a value as the argument of a statement.
Refused(t) == t < 0

-----------------------------------------------------------------------------
(* updateUserDailyVisits and its statement *)

\* time.Time.Truncate(24h): down to a multiple of 24 h of absolute time
Truncate(t) == t - (t % Day)

\* lines 416-421: the day the facts of this run are dated to
TodayStart(t, last, z) ==
    IF Truncate(t) > last THEN AddDate(z, Truncate(t), -1) ELSE Truncate(t)

SameKey(v, w) ==
    /\ v.localpart = w.localpart
    /\ v.device_id = w.device_id
    /\ v.timestamp = w.timestamp

\* (mutation) the WHERE clause without "$2 <= d.last_seen_ts"
JoinedRows_NoWindowStart(devs, accts, p2, p3) ==
    { r \in [u : devs, d : devs, a : accts] :
        /\ r.d.localpart = r.u.localpart
        /\ r.a.localpart = r.u.localpart
        /\ r.d.last_seen_ts < p3
        /\ r.a.account_type \in {AccountTypeUser, AccountTypeAdmin} }

\* The joined rows of the SELECT that pass its WHERE clause.  The LEFT JOIN
\* on udv adds at most one udv row to each u row (unique index) and the
\* WHERE clause does not read it, so it neither adds nor removes a group.
JoinedRows(devs, accts, p2, p3) ==
    { r \in [u : devs, d : devs, a : accts] :
        /\ r.d.localpart = r.u.localpart
        /\ r.a.localpart = r.u.localpart
        /\ p2 <= r.d.last_seen_ts
        /\ r.d.last_seen_ts < p3
        /\ r.a.account_type \in {AccountTypeUser, AccountTypeAdmin} }

\* SELECT u.localpart, u.device_id, $1, MAX(u.user_agent) ... GROUP BY
SelectedRows(devs, accts, p1, p2, p3) ==
    LET J == JoinedRows(devs, accts, p2, p3)
        G == { <<r.u.localpart, r.u.device_id>> : r \in J }
    IN  { [localpart  |-> g[1],
           device_id  |-> g[2],
           timestamp  |-> p1,
           user_agent |-> MaxStr({ r.u.user_agent :
                            r \in { x \in J : x.u.localpart = g[1]
                                              /\ x.u.device_id = g[2] } })] :
          g \in G }

\* (mutation) the INSERT without the unique index and its ON CONFLICT clause
InsertVisits_NoConflict(vis, rows) == vis \cup rows

\* (mutation) ON CONFLICT ... DO UPDATE: the new row replaces the fact
InsertVisits_DoUpdate(vis, rows) ==
    { v \in vis : ~ \E r \in rows : SameKey(v, r) } \cup rows

\* INSERT ... ON CONFLICT (localpart, device_id, timestamp) DO NOTHING
InsertVisits(vis, rows) ==
    vis \cup { r \in rows : ~ \E v \in vis : SameKey(v, r) }

UpdateUserDailyVisitsSQL(vis, devs, accts, p1, p2, p3) ==
    InsertVisits(vis, SelectedRows(devs, accts, p1, p2, p3))

-----------------------------------------------------------------------------
(* Sequences of timers and runs *)

RemoveAt(s, i) == [j \in 1..(Len(s) - 1) |-> IF j < i THEN s[j] ELSE s[j + 1]]

\* time.AfterFunc(d, f): f is called once d has passed.  left counts the
\* duration still to pass; aged tells that the wall clock has moved since the
\* timer was armed.
Timer(d) == [left |-> d, aged |-> FALSE]

\* (mutation) the next timer armed when the callback starts, as a Ticker does
TimersAfterFire_Rearm(ts, i) == Append(RemoveAt(ts, i), Timer(Interval))

\* the timer that fired is consumed (lines 200, 202: AfterFunc fires once)
TimersAfterFire(ts, i) == RemoveAt(ts, i)

\* (mutation) the next run armed only when the run returned no error
Rearm_OnSuccessOnly(ts, err) ==
    IF err THEN ts ELSE Append(ts, Timer(Interval))

\* line 200: after the run, whatever it returned, arm the next one
Rearm(ts, err) == Append(ts, Timer(Interval))

\* hist.prev: how the last run that returned ended; p2, p3: its window when
\* it failed; quietRun: no device activity since the run in progress began;
\* quietPrev: the last run succeeded and no device activity since it began
NoHist == [prev |-> "none", p2 |-> 0, p3 |-> 0,
           quietRun |-> FALSE, quietPrev |-> FALSE]

NoStats == [kind |-> "none"]

\* the rows device_devices holds when the table object is constructed
StaticDevice(t) ==
    [localpart |-> "u2", device_id |-> "d1", last_seen_ts |-> t,
     user_agent |-> UA_Mozilla]

Account(u, t) ==
    [localpart |-> u, account_type |-> t, created_ts |-> 0,
     appservice_id |-> NULL]

AccountInputs ==
    { {Account("u1", AccountTypeUser), Account("u2", AccountTypeGuest)},
      {Account("u1", AccountTypeGuest), Account("u2", AccountTypeAdmin)},
      {Account("u1", AccountTypeAdmin), Account("u2", AccountTypeAppService)},
      {Account("u1", AccountTypeAppService), Account("u2", AccountTypeUser)} }

\* the time zones of the host: UTC, or one whose clocks go back in the
\* night after the first day of the model
ZoneInputs == {UTC, Autumn(Day + 1)}

\* what user_daily_visits holds when the process starts: nothing, or a fact
\* an earlier process wrote for the day t lies in
LedgerInputs(t) ==
    { {},
      { [localpart |-> "u1", device_id |-> "d1", timestamp |-> Truncate(t),
         user_agent |-> UA_Mozilla] } }

\* how NewPostgresStatsTable ended: "ready", all went well; "none", the
\* schema statement failed (line 179), no object and no timer; "unprepared",
\* Prepare failed (line 182) before updateUserDailyVisitsStmt was set: the
\* timers are started already (line 181)
ObjectInputs == {"ready", "none", "unprepared"}

\* the last clock reading the model tells apart
Horizon == Day + MaxTime * HalfDay

-----------------------------------------------------------------------------
(* Actions *)

\* NewPostgresStatsTable: lastUpdate = time.Now(); CREATE TABLE IF NOT
\* EXISTS keeps the facts of an earlier process; startTimers arms the first
\* timer.
Init ==
    /\ now \in {Day, Day + HalfDay}
    /\ zone \in ZoneInputs
    /\ object \in ObjectInputs
    /\ lastUpdate = now
    /\ accounts \in AccountInputs
    /\ devices = {StaticDevice(now)}
    /\ visits \in LedgerInputs(now)
    /\ timers = IF object = "none" THEN <<>> ELSE <<Timer(InitialDelay)>>
    /\ runs = <<>>
    /\ hist = NoHist
    /\ stats = NoStats

\* The wall clock advances (the model reads it every half day).
Tick ==
    /\ now < Horizon
    /\ now' = now + HalfDay
    /\ timers' = [i \in 1..Len(timers) |-> [timers[i] EXCEPT !.aged = TRUE]]
    /\ UNCHANGED <<zone, object, lastUpdate, accounts, devices, visits, runs, hist, stats>>

\* Monotonic time passes: every pending timer comes one unit closer.
Elapse ==
    /\ \E i \in 1..Len(timers) : timers[i].left > 0
    /\ timers' = [i \in 1..Len(timers) |->
                    IF timers[i].left > 0
                    THEN [timers[i] EXCEPT !.left = @ - 1]
                    ELSE timers[i]]
    /\ UNCHANGED <<now, zone, object, lastUpdate, accounts, devices, visits, runs, hist, stats>>

\* The device-activity subsystem records a request of device k.
DeviceSeen(k, ua) ==
    /\ devices' = { d \in devices : <<d.localpart, d.device_id>> # k }
                  \cup { [localpart |-> k[1], device_id |-> k[2],
                          last_seen_ts |-> now, user_agent |-> ua] }
    /\ devices' # devices
    /\ hist' = [hist EXCEPT !.quietRun = FALSE, !.quietPrev = FALSE]
    /\ UNCHANGED <<now, zone, object, lastUpdate, accounts, visits, timers, runs, stats>>

\* A timer fires: updateStatsFunc starts and updateUserDailyVisits reads
\* the clock for todayStart (lines 195-196, 413-421).
TimerFire ==
    \E i \in 1..Len(timers) :
        /\ timers[i].left = 0
        /\ timers[i].aged
        /\ timers' = TimersAfterFire(timers, i)
        /\ runs' = Append(runs, [pc |-> "args",
                                 today |-> Truncate(now),
                                 todayStart |->
                                     TodayStart(now, lastUpdate, zone),
                                 p2 |-> 0, p3 |-> 0, wrote |-> {},
                                 err |-> FALSE])
        /\ hist' = [hist EXCEPT !.quietRun = TRUE]
        /\ UNCHANGED <<now, zone, object, lastUpdate, accounts, devices, visits, stats>>

\* line 422 on a statement that was never prepared: the call on the nil
\* *sql.Stmt panics in the timer's goroutine and the process ends.
Panic ==
    \E i \in 1..Len(runs) :
        /\ runs[i].pc = "args"
        /\ object = "unprepared"
        /\ object' = "panicked"
        /\ runs' = <<>>
        /\ timers' = <<>>
        /\ UNCHANGED <<now, zone, lastUpdate, accounts, devices, visits, hist, stats>>

\* lines 422-426: the arguments of the statement are evaluated, the clock
\* is read for $3, and the statement is sent.
SendStatement ==
    \E i \in 1..Len(runs) :
        /\ runs[i].pc = "args"
        /\ object = "ready"
        /\ runs' = [runs EXCEPT ![i].pc = "exec",
                                ![i].p2 = lastUpdate, ![i].p3 = now]
        /\ UNCHANGED <<now, zone, object, lastUpdate, accounts, devices, visits, timers, hist, stats>>

\* the database executes the statement on the tables as they are now, and
\* ExecContext returns no error
ExecOk ==
    \E i \in 1..Len(runs) :
        /\ runs[i].pc = "exec"
        /\ ~ \E t \in {runs[i].todayStart, runs[i].p2, runs[i].p3} :
                Refused(t)
        /\ visits' = UpdateUserDailyVisitsSQL(visits, devices, accounts,
                         runs[i].todayStart, runs[i].p2, runs[i].p3)
        /\ runs' = [runs EXCEPT ![i].pc = "done", ![i].err = FALSE,
                                ![i].wrote = visits' \ visits]
        /\ UNCHANGED <<now, zone, object, lastUpdate, accounts, devices, timers, hist, stats>>

\* the statement fails and nothing is inserted
ExecFail ==
    \E i \in 1..Len(runs) :
        /\ runs[i].pc = "exec"
        /\ runs' = [runs EXCEPT ![i].pc = "done", ![i].err = TRUE]
        /\ UNCHANGED <<now, zone, object, lastUpdate, accounts, devices, visits, timers, hist, stats>>

\* (mutation) the watermark set whatever the statement returned
NextLastUpdate_Always(old, err, t) == t

\* line 428: the watermark after a run that returned err
NextLastUpdate(old, err, t) == IF err THEN old ELSE t

\* lines 427-430 and 197-200: the watermark moves on success to a new
\* reading of the clock, the error is logged, and the next run is armed.
Return ==
    \E i \in 1..Len(runs) :
        /\ runs[i].pc = "done"
        /\ lastUpdate' = NextLastUpdate(lastUpdate, runs[i].err, now)
        /\ timers' = Rearm(timers, runs[i].err)
        /\ runs' = RemoveAt(runs, i)
        /\ hist' = [prev      |-> IF runs[i].err THEN "failed" ELSE "ok",
                    p2        |-> IF runs[i].err THEN runs[i].p2 ELSE 0,
                    p3        |-> IF runs[i].err THEN runs[i].p3 ELSE 0,
                    quietRun  |-> FALSE,
                    quietPrev |-> (hist.quietRun /\ ~ runs[i].err)]
        /\ UNCHANGED <<now, zone, object, accounts, devices, visits, stats>>

Next ==
    \/ Tick
    \/ Elapse
    \/ \E k \in DeviceKeys : \E ua \in AgentsOf(k) : DeviceSeen(k, ua)
    \/ TimerFire
    \/ Panic
    \/ SendStatement
    \/ ExecOk
    \/ ExecFail
    \/ Return

Spec == Init /\ [][Next]_vars

\* Time passes after the clock has reached the last reading the model
\* tells apart: timers age, every later reading is Horizon.
TickPastHorizon ==
    /\ now = Horizon
    /\ \E i \in 1..Len(timers) : ~ timers[i].aged
    /\ timers' = [i \in 1..Len(timers) |-> [timers[i] EXCEPT !.aged = TRUE]]
    /\ UNCHANGED <<now, zone, object, lastUpdate, accounts, devices, visits, runs, hist, stats>>

\* the devices whose activity is recorded in the lifetime specification
LiveDeviceKeys == {<<"u1", "d2">>}

NextLive ==
    \/ Tick
    \/ TickPastHorizon
    \/ Elapse
    \/ \E k \in LiveDeviceKeys : \E ua \in AgentsOf(k) : DeviceSeen(k, ua)
    \/ TimerFire
    \/ Panic
    \/ SendStatement
    \/ ExecOk
    \/ ExecFail
    \/ Return

\* The scheduler for the lifetime of the process: time passes, the runtime
\* calls the function of a timer that is due, and each statement returns
\* (with or without an error).
SpecLive ==
    /\ Init
    /\ [][NextLive]_vars
    /\ WF_vars(Tick \/ TickPastHorizon)
    /\ WF_vars(Elapse)
    /\ WF_vars(TimerFire)
    /\ WF_vars(SendStatement)
    /\ WF_vars(ExecOk \/ ExecFail)
    /\ WF_vars(Return)

-----------------------------------------------------------------------------
(* The statistics queries *)

P_Android == <<"A","n","d","r","o","i","d">>

P_iOS == <<"i","O","S">>

P_Electron == <<"E","l","e","c","t","r","o","n">>

P_Mozilla == <<"M","o","z","i","l","l","a">>

P_Gecko == <<"G","e","c","k","o">>

\* lines 65-73: the CASE of countR30UsersSQL
LegacyPlatform(ua) ==
    IF Like(ua, P_Android) THEN "android"
    ELSE IF Like(ua, P_iOS) THEN "ios"
    ELSE IF Like(ua, P_Electron) THEN "electron"
    ELSE IF Like(ua, P_Mozilla) THEN "web"
    ELSE IF Like(ua, P_Gecko) THEN "web"
    ELSE "unknown"

\* (mutation) the web branch tested before the riot/element branch
V2Platform_WebFirst(ua) ==
    LET l == Lower(ua)
    IN  IF Like(l, <<"m","o","z","i","l","l","a">>)
           \/ Like(l, <<"g","e","c","k","o">>)
        THEN "web"
        ELSE IF Like(l, <<"r","i","o","t">>)
                \/ Like(l, <<"e","l","e","m","e","n","t">>)
             THEN IF Like(l, <<"e","l","e","c","t","r","o","n">>)
                  THEN "electron"
                  ELSE IF Like(l, <<"a","n","d","r","o","i","d">>)
                       THEN "android"
                       ELSE IF Like(l, <<"i","o","s">>) THEN "ios"
                            ELSE "unknown"
             ELSE "unknown"

\* lines 98-110: the CASE of countR30UsersV2SQL
V2Platform(ua) ==
    LET l == Lower(ua)
    IN  IF Like(l, <<"r","i","o","t">>)
           \/ Like(l, <<"e","l","e","m","e","n","t">>)
        THEN IF Like(l, <<"e","l","e","c","t","r","o","n">>) THEN "electron"
             ELSE IF Like(l, <<"a","n","d","r","o","i","d">>) THEN "android"
             ELSE IF Like(l, <<"i","o","s">>) THEN "ios"
             ELSE "unknown"
        ELSE IF Like(l, <<"m","o","z","i","l","l","a">>)
                \/ Like(l, <<"g","e","c","k","o">>)
             THEN "web"
             ELSE "unknown"

Max(S) == CHOOSE x \in S : \A y \in S : y <= x

Min(S) == CHOOSE x \in S : \A y \in S : x <= y

\* a Go map[string]int64: a function from its keys.  A nil map has no key
\* either; UserStatistics' result tells the two apart (field nil of NewStats).
EmptyMap == [k \in {} |-> 0]

FiveKeys == {"ios", "android", "web", "electron", "all"}

\* (mutation) the loop without "if platform == unknown { continue }"
ScanRows_KeepUnknown(seed, rows) ==
    LET keys == DOMAIN seed \cup {"all"} \cup { r[1] : r \in rows }
        RECURSIVE Sum(_)
        Sum(R) == IF R = {} THEN 0
                  ELSE LET r == CHOOSE x \in R : TRUE
                       IN  r[2] + Sum(R \ {r})
    IN  IF rows = {} THEN seed
        ELSE [k \in keys |->
                IF k = "all"
                THEN (IF "all" \in DOMAIN seed THEN seed["all"] ELSE 0)
                     + Sum(rows)
                ELSE IF \E r \in rows : r[1] = k
                     THEN (CHOOSE r \in rows : r[1] = k)[2]
                     ELSE seed[k]]

\* lines 299-311 and 337-355: result["all"] += count for every row and
\* result[platform] = count for every row but the unknown one, on top of
\* the map seed.  rows: the set of <<platform, count>> scanned, one per
\* platform.
ScanRows(seed, rows) ==
    LET keys == DOMAIN seed \cup {"all"}
                \cup { r[1] : r \in { x \in rows : x[1] # "unknown" } }
        RECURSIVE Sum(_)
        Sum(R) == IF R = {} THEN 0
                  ELSE LET r == CHOOSE x \in R : TRUE
                       IN  r[2] + Sum(R \ {r})
    IN  IF rows = {} THEN seed
        ELSE [k \in keys |->
                IF k = "all"
                THEN (IF "all" \in DOMAIN seed THEN seed["all"] ELSE 0)
                     + Sum(rows)
                ELSE IF \E r \in rows : r[1] = k
                     THEN (CHOOSE r \in rows : r[1] = k)[2]
                     ELSE seed[k]]

\* (mutation) the cutoff of r30Users taken 60 days back
R30Cutoff_SixtyDays(z, t) == AddDate(z, t, -60)

\* line 287: lastSeenAfter, from the clock reading t
R30Cutoff(z, t) == AddDate(z, t, -30)

\* lines 58-83 with $1 = p1, $2 = p2: the rows <<platform, COUNT(*)>>
CountR30UsersSQL(accts, devs, p1, p2) ==
    LET uip == { [localpart |-> d.localpart, last_seen_ts |-> d.last_seen_ts,
                  platform |-> LegacyPlatform(d.user_agent)] : d \in devs }
        J == { r \in [users : accts, uip : uip] :
                 /\ r.users.localpart = r.uip.localpart
                 /\ r.users.account_type # AccountTypeAppService
                 /\ r.users.created_ts < p1
                 /\ r.uip.last_seen_ts > p1
                 /\ r.uip.last_seen_ts - r.users.created_ts > p2 }
        u == { <<r.users.localpart, r.uip.platform, r.users.created_ts>> :
                 r \in J }
    IN  { <<p, Cardinality({ g \in u : g[2] = p })>> :
            p \in { g[2] : g \in u } }

\* lines 287-293: the rows the query of r30Users returns, the clock read
\* as t
R30UsersRows(z, t, accts, devs) ==
    CountR30UsersSQL(accts, devs, R30Cutoff(z, t), 30 * Day)

\* lines 90-117 with $1 = p1, $2 = p2, $3 = p3: <<client_type, count>>
CountR30UsersV2SQL(vis, p1, p2, p3) ==
    LET W == { v \in vis : v.timestamp > p1 /\ v.timestamp < p2 }
        G == { <<v.localpart, V2Platform(v.user_agent)>> : v \in W }
        Times(g) == { v.timestamp :
                        v \in { x \in W : /\ x.localpart = g[1]
                                          /\ V2Platform(x.user_agent) = g[2] } }
        temp == { g \in G : Max(Times(g)) - Min(Times(g)) > p3 }
    IN  { <<p, Cardinality({ g \in temp : g[2] = p })>> :
            p \in { g[2] : g \in temp } }

\* (mutation) the map of r30UsersV2 made empty, as in r30Users
V2Seed_Empty == EmptyMap

\* lines 339-345
V2Seed == [k \in FiveKeys |-> 0]

\* lines 323-331: the rows the query of r30UsersV2 returns, the clock read
\* as t1 (sixtyDaysAgo), t2 (thirtyDaysAgo) and t3 (tomorrow); $3 is
\* AsTimestamp(thirtyDaysAgo)
R30UsersV2Rows(z, t1, t2, t3, vis) ==
    CountR30UsersV2SQL(vis, AddDate(z, t1, -60), t3 + Day, AddDate(z, t2, -30))

\* lines 119-121 under lines 205-228
CountUserByAccountType(accts, types) ==
    Cardinality({ a \in accts : a.account_type \in types })

\* lines 46-50 under lines 261-277
CountUsersLastSeenAfter(devs, p1) ==
    Cardinality({ d.localpart : d \in { x \in devs : x.last_seen_ts > p1 } })

\* lines 127-131: the CASE of countRegisteredUserByTypeStmt, NULL when no
\* branch matches
UserType(a) ==
    IF a.account_type \in {AccountTypeUser, AccountTypeAdmin,
                           AccountTypeAppService}
       /\ a.appservice_id = NULL THEN <<"native">>
    ELSE IF a.account_type = AccountTypeGuest
            /\ a.appservice_id = NULL THEN <<"guest">>
    ELSE IF a.account_type \in {AccountTypeUser, AccountTypeAdmin,
                                AccountTypeAppService}
            /\ a.appservice_id # NULL THEN <<"bridged">>
    ELSE NULL

\* lines 125-136 with $3 = p3: the rows <<user_type, count>>
CountRegisteredUserByTypeSQL(accts, p3) ==
    LET R == { a \in accts : a.created_ts > p3 }
    IN  { <<ty, Cardinality({ a \in R : UserType(a) = ty })>> :
            ty \in { UserType(a) : a \in R } }

\* lines 251-256: result[userType] = count for the rows scanned
ScanTypes(rows) ==
    [k \in { r[1][1] : r \in rows } |->
        (CHOOSE r \in rows : r[1][1] = k)[2]]

\* the sub-computations of UserStatistics in the order of lines 379-409
Order == <<"allUsers", "dailyUsers", "monthlyUsers", "r30Users",
           "r30UsersV2", "nonBridgedUsers", "registeredUserByType",
           "dbEngineVersion">>

\* how often the k-th sub-computation reads the clock before its query is
\* sent (lines 263, 272, 287, 323-325, 232)
ClockReads(k) ==
    IF k \in {2, 3, 4, 7} THEN 1 ELSE IF k = 5 THEN 3 ELSE 0

DbVersion == "15.1"

\* lines 364-378.  calls: the sub-computations called so far; err: the err
\* variable ("nil", or the sub-computation whose error it holds); nil: the
\* map fields that hold a nil map.
NewStats ==
    [calls |-> <<>>, err |-> "nil",
     AllUsers |-> 0, DailyUsers |-> 0, MonthlyUsers |-> 0,
     NonBridgedUsers |-> 0,
     R30Users |-> EmptyMap,
     R30UsersV2 |-> [k \in FiveKeys |-> 0],
     RegisteredUsersByType |-> EmptyMap,
     Version |-> "unknown",
     nil |-> {}]

\* the rows the query of the k-th sub-computation returns when it is
\* executed on these tables, args being the clock readings taken for it
QueryRows(k, args, z, accts, devs, vis) ==
    CASE k = 4 -> R30UsersRows(z, args[1], accts, devs)
    []   k = 5 -> R30UsersV2Rows(z, args[1], args[2], args[3], vis)
    []   k = 7 -> CountRegisteredUserByTypeSQL(accts, AddDate(z, args[1], -1))
    []   OTHER -> {}

\* the timestamps passed to the query of the k-th sub-computation (lines
\* 241, 265, 274, 291, 328-330)
QueryArgs(k, args, z) ==
    CASE k = 2 -> {AddDate(z, args[1], -1)}
    []   k = 3 -> {AddDate(z, args[1], -30)}
    []   k = 4 -> {AddDate(z, args[1], -30)}
    []   k = 5 -> {AddDate(z, args[1], -60), args[3] + Day,
                   AddDate(z, args[2], -30)}
    []   k = 7 -> {AddDate(z, args[1], -1)}
    []   OTHER -> {}

\* How the k-th sub-computation can end when its query, passed the
\* timestamps ts, returns rows:
\*   "ok"      every row is scanned, no error;
\*   "error"   the query or a Scan fails: a count stays 0, a map function
\*             returns nil (lines 294-296, 303-305);
\*   "rowsErr" rows.Err() after the loop (lines 258, 313, 357): the map of
\*             the rows seen so far is returned with the error.
\* A row of registeredUserByType whose user_type is NULL cannot be scanned
\* into a string (line 252).  A query passed a refused timestamp is not
\* executed and returns an error.
Outcomes(k, rows, ts) ==
    LET scannable == IF k = 7 THEN { r \in rows : r[1] # NULL } ELSE rows
    IN  IF \E t \in ts : Refused(t)
        THEN {[kind |-> "error", seen |-> {}]}
        ELSE {[kind |-> "error", seen |-> {}]}
             \cup (IF scannable = rows
                   THEN {[kind |-> "ok", seen |-> rows]} ELSE {})
             \cup (IF k \in {4, 5, 7}
                   THEN { [kind |-> "rowsErr", seen |-> S] :
                            S \in SUBSET scannable }
                   ELSE {})

\* The k-th sub-computation of UserStatistics ending as oc and the
\* assignment of its results to stats and err.
StatsStep(k, st, oc, args, z, accts, devs) ==
    LET ok == oc.kind = "ok"
        s1 == [st EXCEPT !.calls = Append(@, Order[k]),
                         !.err = IF ok THEN "nil" ELSE Order[k]]
        Nil(f) == IF oc.kind = "error" THEN s1.nil \cup {f}
                  ELSE s1.nil \ {f}
    IN  CASE k = 1 -> [s1 EXCEPT !.AllUsers =
                IF ok THEN CountUserByAccountType(accts,
                             {AccountTypeUser, AccountTypeGuest,
                              AccountTypeAdmin, AccountTypeAppService})
                ELSE 0]
        []   k = 2 -> [s1 EXCEPT !.DailyUsers =
                IF ok THEN CountUsersLastSeenAfter(devs,
                             AddDate(z, args[1], -1))
                ELSE 0]
        []   k = 3 -> [s1 EXCEPT !.MonthlyUsers =
                IF ok THEN CountUsersLastSeenAfter(devs,
                             AddDate(z, args[1], -30))
                ELSE 0]
        []   k = 4 -> [s1 EXCEPT
                !.R30Users = IF oc.kind = "error" THEN EmptyMap
                             ELSE ScanRows(EmptyMap, oc.seen),
                !.nil = Nil("R30Users")]
        []   k = 5 -> [s1 EXCEPT
                !.R30UsersV2 = IF oc.kind = "error" THEN EmptyMap
                               ELSE ScanRows(V2Seed, oc.seen),
                !.nil = Nil("R30UsersV2")]
        []   k = 6 -> [s1 EXCEPT !.NonBridgedUsers =
                IF ok THEN CountUserByAccountType(accts,
                             {AccountTypeUser, AccountTypeGuest,
                              AccountTypeAdmin})
                ELSE 0]
        []   k = 7 -> [s1 EXCEPT
                !.RegisteredUsersByType =
                    IF oc.kind = "error" THEN EmptyMap
                    ELSE ScanTypes(oc.seen),
                !.nil = Nil("RegisteredUsersByType")]
        []   k = 8 -> [s1 EXCEPT !.Version =
                IF ok THEN DbVersion ELSE "unknown"]

\* (mutation) the error of dailyUsers not checked
ReturnsEarly_NotAfterDaily(st) == st.err \notin {"nil", "dailyUsers"}

\* "if err != nil { return stats, dbEngine, err }" after each step
ReturnsEarly(st) == st.err # "nil"

-----------------------------------------------------------------------------
(* One call of UserStatistics over drawn tables, other work going on *)

EpochDays == 19300

\* a clock reading of early 1970, more than 60 days after the epoch (a host
\* whose clock is not set)
EarlyDays == 61

\* a clock reading less than 60 days after the epoch: sixtyDaysAgo is a
\* time before 1970
UnsetDays == 50

MaxFacts == 2

\* how far the clock advances while the call is followed
MaxCallTime == 1

\* how many changes of the tables are followed while the call is in progress
MaxChanges == 1

StatsNows == { EpochDays * Day + 1, EarlyDays * Day + 1 }

\* UTC, or a zone whose clocks went back half a day before t
StatsZones(t) == {UTC, Autumn(t - HalfDay)}

Row(u, ty, created, as) ==
    [localpart |-> u, account_type |-> ty, created_ts |-> created,
     appservice_id |-> as]

Dev(u, d, seen, ua) ==
    [localpart |-> u, device_id |-> d, last_seen_ts |-> seen,
     user_agent |-> ua]

Fact(u, d, day, ua) ==
    [localpart |-> u, device_id |-> d, timestamp |-> day, user_agent |-> ua]

StatsAccounts(t) ==
    { {},
      {Row("u1", AccountTypeUser, t - 40 * Day, NULL)},
      {Row("u1", AccountTypeUser, t - 20 * Day, NULL)},
      {Row("u1", AccountTypeUser, t - 30 * Day - 1, NULL)},
      {Row("u1", AccountTypeAppService, t - 40 * Day, <<"as">>)},
      {Row("u1", AccountTypeAdmin, t - 40 * Day, NULL),
       Row("u2", AccountTypeGuest, t, NULL)},
      {Row("u1", AccountTypeUser, t - Day, <<"NULL">>),
       Row("u2", AccountTypeGuest, t, NULL)},
      {Row("u1", AccountTypeUser, t - 40 * Day, NULL),
       Row("u2", AccountTypeGuest, t, <<"as">>)} }

StatsDevices(t) ==
    { {},
      {Dev("u1", "d1", t - 5 * Day, UA_iOS)},
      {Dev("u1", "d1", t - 5 * Day, UA_Mozilla)},
      {Dev("u1", "d1", t - 35 * Day, UA_iOS)},
      {Dev("u1", "d1", t - 5 * Day, UA_Curl)},
      {Dev("u1", "d1", t - 5 * Day, UA_iOS),
       Dev("u1", "d2", t, UA_Mozilla),
       Dev("u2", "d1", t, UA_Mozilla)} }

\* facts are dated to day starts; the unique index of line 41 allows one
\* fact per (localpart, device_id, timestamp)
StatsVisits(t) ==
    LET d0 == Truncate(t)
    IN  { V \in SUBSET { Fact("u1", "d1", d0 - 45 * Day, UA_Mozilla),
                         Fact("u1", "d1", d0 - 20 * Day, UA_Mozilla),
                         Fact("u1", "d1", d0 - 10 * Day, UA_Mozilla),
                         Fact("u1", "d1", d0 - 40 * Day, UA_iOS),
                         Fact("u1", "d1", d0 - 5 * Day, UA_iOS),
                         Fact("u1", "d2", d0 - 45 * Day, UA_Curl),
                         Fact("u1", "d2", d0 - 10 * Day, UA_Curl),
                         Fact("u2", "d1", d0 - 10 * Day, UA_Mozilla) } :
            /\ Cardinality(V) <= MaxFacts
            /\ \A v \in V : \A w \in V : SameKey(v, w) => v = w }

\* the inputs drawn: at a present-day clock reading, any accounts and
\* devices with an empty ledger in either zone; at either clock reading of
\* StatsNows, any ledger with one retained account and its device in UTC;
\* at the clock reading of the first weeks of 1970, one such ledger
StatsInputs ==
    { [t |-> EpochDays * Day + 1, z |-> z, a |-> a, d |-> d, v |-> {}] :
        z \in StatsZones(EpochDays * Day + 1),
        a \in StatsAccounts(EpochDays * Day + 1),
        d \in StatsDevices(EpochDays * Day + 1) }
    \cup
    UNION { { [t |-> t, z |-> UTC,
               a |-> {Row("u1", AccountTypeUser, t - 40 * Day, NULL)},
               d |-> {Dev("u1", "d1", t - 5 * Day, UA_Curl)},
               v |-> v] : v \in StatsVisits(t) } : t \in StatsNows }
    \cup
    { [t |-> UnsetDays * Day + 1, z |-> UTC,
       a |-> {Row("u1", AccountTypeUser, Day, NULL)},
       d |-> {Dev("u1", "d1", 45 * Day, UA_Curl)},
       v |-> {Fact("u1", "d1", 5 * Day, UA_Mozilla),
              Fact("u1", "d1", 40 * Day, UA_Mozilla)}] }

InitStats ==
    /\ \E in \in StatsInputs :
          /\ now = in.t
          /\ zone = in.z
          /\ lastUpdate = in.t - HalfDay
          /\ accounts = in.a
          /\ devices = in.d
          /\ visits = in.v
    /\ object = "ready"
    /\ timers = <<>>
    /\ runs = <<>>
    /\ hist = NoHist
    /\ stats = NoStats

NoQuery == [args |-> <<>>, rows |-> {}, kind |-> "none"]

\* UserStatistics is called (one call is followed).  k: the sub-computation
\* in progress; args: the clock readings it has taken; last: of the
\* sub-computation done last, the readings, the rows of its query and how
\* it ended.
CallUserStatistics ==
    /\ stats = NoStats
    /\ stats' = [kind |-> "call", k |-> 1, args |-> <<>>, last |-> NoQuery,
                 t0 |-> now, changes |-> 0, out |-> NewStats]
    /\ UNCHANGED <<now, zone, object, lastUpdate, accounts, devices, visits, timers, runs, hist>>

\* the sub-computation in progress reads the clock (time.Now())
StatsReadClock ==
    /\ stats.kind = "call"
    /\ Len(stats.args) < ClockReads(stats.k)
    /\ stats' = [stats EXCEPT !.args = Append(@, now)]
    /\ UNCHANGED <<now, zone, object, lastUpdate, accounts, devices, visits, timers, runs, hist>>

\* The query of the sub-computation in progress is executed on the tables
\* as they are now and the sub-computation ends; UserStatistics goes on to
\* the next one or returns.
StatsQuery ==
    /\ stats.kind = "call"
    /\ Len(stats.args) = ClockReads(stats.k)
    /\ LET rows == QueryRows(stats.k, stats.args, zone, accounts, devices,
                             visits)
       IN  \E oc \in Outcomes(stats.k, rows,
                                QueryArgs(stats.k, stats.args, zone)) :
             LET o2 == StatsStep(stats.k, stats.out, oc, stats.args, zone,
                                 accounts, devices)
                 q2 == [args |-> stats.args, rows |-> rows,
                        kind |-> oc.kind]
             IN  stats' =
                   IF ReturnsEarly(o2) \/ stats.k = Len(Order)
                   THEN [kind |-> "returned", k |-> stats.k, args |-> <<>>,
                         last |-> q2, t0 |-> stats.t0,
                         changes |-> stats.changes, out |-> o2]
                   ELSE [stats EXCEPT !.k = @ + 1, !.args = <<>>,
                                      !.last = q2, !.out = o2]
    /\ UNCHANGED <<now, zone, object, lastUpdate, accounts, devices, visits, timers, runs, hist>>

\* the clock advances while the call is in progress
StatsTick ==
    /\ stats.kind = "call"
    /\ now < stats.t0 + MaxCallTime
    /\ now' = now + 1
    /\ UNCHANGED <<zone, object, lastUpdate, accounts, devices, visits, timers, runs, hist, stats>>

\* another change of a table is followed
Changing ==
    /\ stats.kind = "call"
    /\ stats.changes < MaxChanges

Changed == [stats EXCEPT !.changes = @ + 1]

\* the device whose activity is recorded while the call is in progress
StatsDeviceKeys == {<<"u1", "d2">>}

\* a request of a device is recorded while the call is in progress
StatsDeviceSeen ==
    /\ Changing
    /\ \E k \in StatsDeviceKeys : \E ua \in AgentsOf(k) :
          /\ devices' = { d \in devices : <<d.localpart, d.device_id>> # k }
                        \cup {Dev(k[1], k[2], now, ua)}
          /\ devices' # devices
    /\ stats' = Changed
    /\ UNCHANGED <<now, zone, object, lastUpdate, accounts, visits, timers, runs, hist>>

\* an account registers while the call is in progress
StatsAccountCreated ==
    /\ Changing
    /\ ~ \E a \in accounts : a.localpart = "u2"
    /\ accounts' = accounts \cup {Row("u2", AccountTypeUser, now, NULL)}
    /\ stats' = Changed
    /\ UNCHANGED <<now, zone, object, lastUpdate, devices, visits, timers, runs, hist>>

\* A timer of this process fires while the call is in progress:
\* updateStatsFunc starts and updateUserDailyVisits reads the clock for
\* todayStart (lines 195-196, 413-421).  The run goes on by SendStatement,
\* ExecOk or ExecFail, and Return.
StatsRunStart ==
    /\ Changing
    /\ runs = <<>>
    /\ runs' = <<[pc |-> "args",
                  today |-> Truncate(now),
                  todayStart |-> TodayStart(now, lastUpdate, zone),
                  p2 |-> 0, p3 |-> 0, wrote |-> {}, err |-> FALSE]>>
    /\ stats' = Changed
    /\ UNCHANGED <<now, zone, object, lastUpdate, accounts, devices, visits, timers, hist>>

NextStats ==
    \/ CallUserStatistics
    \/ StatsReadClock
    \/ StatsQuery
    \/ StatsTick
    \/ StatsDeviceSeen
    \/ StatsAccountCreated
    \/ StatsRunStart
    \/ SendStatement
    \/ ExecOk
    \/ ExecFail
    \/ Return

SpecStats == InitStats /\ [][NextStats]_vars

-----------------------------------------------------------------------------
(* The two classifiers over drawn client identifiers *)

MaxTokens == 3

\* pieces of client identifiers, in the letter cases clients send and others
Tokens ==
    { P_Android, <<"a","n","d","r","o","i","d">>,
      P_iOS, <<"I","O","S">>,
      P_Electron,
      P_Mozilla, <<"m","o","z","i","l","l","a">>,
      P_Gecko,
      <<"R","i","o","t">>, <<"e","l","e","m","e","n","t">>,
      UA_Curl }

\* the identifiers made of up to n pieces; the empty identifier is one
RECURSIVE Identifiers(_)
Identifiers(n) ==
    IF n = 0 THEN {<<>>}
    ELSE LET S == Identifiers(n - 1)
         IN  S \cup { i \o t : i \in S, t \in Tokens }

InitClassify ==
    /\ now = 0
    /\ zone = UTC
    /\ object = "ready"
    /\ lastUpdate = 0
    /\ accounts = {}
    /\ devices = {}
    /\ visits = {}
    /\ timers = <<>>
    /\ runs = <<>>
    /\ hist = NoHist
    /\ stats \in { [kind |-> "identifier", ua |-> i] :
                     i \in Identifiers(MaxTokens) }

\* the CASE of countR30UsersSQL evaluated on a row's user_agent
ClassifyLegacy ==
    /\ stats.kind = "identifier"
    /\ stats' = [kind |-> "legacy", ua |-> stats.ua,
                 tag |-> LegacyPlatform(stats.ua)]
    /\ UNCHANGED <<now, zone, object, lastUpdate, accounts, devices, visits, timers, runs, hist>>

\* the CASE of countR30UsersV2SQL evaluated on a row's user_agent
ClassifyV2 ==
    /\ stats.kind = "identifier"
    /\ stats' = [kind |-> "v2", ua |-> stats.ua,
                 tag |-> V2Platform(stats.ua)]
    /\ UNCHANGED <<now, zone, object, lastUpdate, accounts, devices, visits, timers, runs, hist>>

NextClassify == ClassifyLegacy \/ ClassifyV2

SpecClassify == InitClassify /\ [][NextClassify]_vars

-----------------------------------------------------------------------------
(* Steps of a run, as seen in a transition *)

SendStep ==
    /\ Len(runs) = 1 /\ Len(runs') = 1
    /\ runs[1].pc = "args" /\ runs'[1].pc = "exec"

ExecOkStep ==
    /\ Len(runs) = 1 /\ Len(runs') = 1
    /\ runs[1].pc = "exec" /\ runs'[1].pc = "done" /\ ~ runs'[1].err

ReturnStep ==
    /\ Len(runs) = 1 /\ runs[1].pc = "done" /\ runs' = <<>>

\* the fact of device d dated p1
FactOf(d, p1) ==
    [localpart |-> d.localpart, device_id |-> d.device_id,
     timestamp |-> p1, user_agent |-> d.user_agent]

AccountTypeOf(u) == (CHOOSE a \in accounts : a.localpart = u).account_type

-----------------------------------------------------------------------------
(* Properties of the ledger and of the scheduler *)

\* C1: whatever runs happened (successful or failed, over the same,
\* overlapping or disjoint windows, across day boundaries), user_daily_visits
\* holds at most one fact per (localpart, device_id, timestamp).
C1_OneFactPerKey ==
    \A v \in visits : \A w \in visits : SameKey(v, w) => v = w

\* C1 witness: a run has just succeeded over a window holding a device whose
\* fact for that day was already there with another client identifier.
C1_Witness ==
    /\ Len(runs) = 1 /\ runs[1].pc = "done" /\ ~ runs[1].err
    /\ \E d \in devices : \E v \in visits :
          /\ runs[1].p2 <= d.last_seen_ts /\ d.last_seen_ts < runs[1].p3
          /\ SameKey(v, FactOf(d, runs[1].todayStart))
          /\ v.user_agent # d.user_agent

\* C2: the watermark changes only in the return of a successful run and
\* never decreases; a failed run leaves it unchanged, and the run after a
\* failed run starts its window where the failed run started and ends it no
\* earlier than the failed run ended.
C2_Watermark ==
    [][ /\ lastUpdate' >= lastUpdate
        /\ (lastUpdate' # lastUpdate => ReturnStep /\ ~ runs[1].err)
        /\ (ReturnStep /\ runs[1].err => lastUpdate' = lastUpdate)
        /\ (SendStep /\ hist.prev = "failed" =>
               /\ runs'[1].p2 = hist.p2
               /\ runs'[1].p3 >= hist.p3) ]_vars

\* C2 witness: the run after a failed run has executed its statement over a
\* window that starts where the failed one started and ends later.
C2_Witness ==
    /\ hist.prev = "failed"
    /\ Len(runs) = 1 /\ runs[1].pc = "done"
    /\ runs[1].p2 = hist.p2 /\ runs[1].p3 > hist.p3
    /\ lastUpdate = hist.p2

\* C3 (as claimed): a successful run inserts the facts of exactly the
\* devices whose own last_seen_ts is in [windowStart, windowEnd) and whose
\* account is a user or an admin, unless the fact exists already.
C3_OwnWindowOnly ==
    [][ ExecOkStep =>
          visits' = InsertVisits(visits,
                      { FactOf(d, runs[1].todayStart) :
                          d \in { x \in devices :
                                    /\ runs[1].p2 <= x.last_seen_ts
                                    /\ x.last_seen_ts < runs[1].p3
                                    /\ AccountTypeOf(x.localpart) \in
                                         {AccountTypeUser, AccountTypeAdmin} } })
      ]_vars

\* C4 (as claimed): every fact a run writes is dated todayStart - 1 day when
\* todayStart (the start of the day the run began in) is after the
\* watermark, and todayStart otherwise.
C4_FactDay ==
    \A i \in 1..Len(runs) :
        runs[i].pc = "done" =>
            \A f \in runs[i].wrote :
                f.timestamp = IF runs[i].today > runs[i].p2
                              THEN runs[i].today - Day
                              ELSE runs[i].today

\* C5 (as claimed): when the last run succeeded and no device activity was
\* recorded since that run began, the next run inserts nothing.
C5_SecondRunWritesNothing ==
    [][ ExecOkStep /\ hist.quietPrev => visits' = visits ]_vars

\* C5 (amended): when the last run succeeded and no device has a
\* last_seen_ts at or after the watermark that run set, the next run inserts
\* nothing.
C5_NothingNewNothingWritten ==
    [][ ( /\ ExecOkStep
          /\ hist.prev = "ok"
          /\ \A d \in devices : d.last_seen_ts < lastUpdate )
        => visits' = visits ]_vars

\* C5 witness: the run after a successful run that had written facts has
\* succeeded, on a later day, with every device last seen before its window,
\* and has written nothing.
C5_Witness ==
    /\ hist.prev = "ok"
    /\ Len(runs) = 1 /\ runs[1].pc = "done" /\ ~ runs[1].err
    /\ \A d \in devices : d.last_seen_ts < runs[1].p2
    /\ visits # {}
    /\ \A v \in visits : v.timestamp # runs[1].todayStart
    /\ runs[1].wrote = {}

\* C7: at most one run is in progress, and while a run is in progress no
\* timer for a further run is armed.
C7_SingleFlight ==
    /\ Len(runs) <= 1
    /\ Len(runs) = 1 => timers = <<>>

\* C7 witness: a later run than the first is in progress, the clock having
\* advanced since it sent its statement.
C7_Witness ==
    /\ hist.prev # "none"
    /\ Len(runs) = 1 /\ runs[1].pc = "done"
    /\ now > runs[1].p3

\* C8: when a run returns, with or without an error, exactly one timer is
\* armed, for the full interval; a run starts only from a timer whose whole
\* duration has passed; and so, in a process whose table object was
\* constructed, a run is in progress infinitely often, also after a failed
\* run.
C8_AlwaysRearmed ==
    /\ [][ReturnStep => timers' = <<Timer(Interval)>>]_vars
    /\ [][Len(runs') > Len(runs) =>
            \E i \in 1..Len(timers) :
                timers[i].left = 0 /\ timers' = RemoveAt(timers, i)]_vars
    /\ []<>(object # "ready" \/ Len(runs) = 1)
    /\ (hist.prev = "failed" /\ runs = <<>>) ~> (Len(runs) = 1)

\* C8 witness: after a run that failed, the next run has sent its statement.
C8_Witness ==
    /\ hist.prev = "failed"
    /\ Len(runs) = 1 /\ runs[1].pc = "exec"

\* C15 (as claimed): when a successful run returns, the watermark becomes
\* the end of that run's window, so the next window starts where this one
\* ended and no last_seen_ts recorded while the run executed lies between
\* the end of the window and the new watermark.
C15_WatermarkIsWindowEnd ==
    [][ ReturnStep /\ ~ runs[1].err =>
          /\ lastUpdate' = runs[1].p3
          /\ \A d \in devices :
                ~ (runs[1].p3 <= d.last_seen_ts
                   /\ d.last_seen_ts < lastUpdate') ]_vars

\* C16 (as claimed): every fact a run writes for a device last seen inside
\* the run's window is dated to the day of that last_seen_ts, also in the
\* first run after a day boundary and in a run after failed runs.
C16_FactOnActivityDay ==
    [][ ExecOkStep =>
          \A f \in visits' \ visits : \A d \in devices :
              ( /\ d.localpart = f.localpart
                /\ d.device_id = f.device_id
                /\ runs[1].p2 <= d.last_seen_ts
                /\ d.last_seen_ts < runs[1].p3 )
              => f.timestamp = Truncate(d.last_seen_ts) ]_vars

\* C18: no step removes or changes a fact of user_daily_visits; a run whose
\* statement meets a fact with the key of a selected row succeeds and leaves
\* that fact, its user_agent included, as the only fact of that key.
C18_LedgerOnlyGrows ==
    [][ /\ visits \subseteq visits'
        /\ ExecOkStep =>
              \A v \in visits : \A w \in visits' : SameKey(v, w) => w = v
      ]_vars

\* C18 witness: a run has succeeded whose window holds a device that now
\* reports another client identifier than the one of its fact for that day,
\* a fact the run found and did not write.
C18_Witness ==
    /\ Len(runs) = 1 /\ runs[1].pc = "done" /\ ~ runs[1].err
    /\ \E d \in devices : \E v \in visits \ runs[1].wrote :
          /\ runs[1].p2 <= d.last_seen_ts /\ d.last_seen_ts < runs[1].p3
          /\ d.last_seen_ts >= v.timestamp
          /\ SameKey(v, FactOf(d, runs[1].todayStart))
          /\ v.user_agent # d.user_agent
    /\ hist.prev = "ok"

-----------------------------------------------------------------------------
(* Properties of the statistics *)

\* the step in which the k-th sub-computation of the call ends
QueryDone(k) ==
    /\ stats.kind = "call"
    /\ stats.k = k
    /\ stats'.kind \in {"call", "returned"}
    /\ Len(stats'.out.calls) = k
    /\ Len(stats.out.calls) = k - 1

\* ... and ends without an error
OkDone(k) == QueryDone(k) /\ stats'.last.kind = "ok"

\* the value the k-th sub-computation assigns in the statistics o
StatsField(o, k) ==
    CASE k = 1 -> o.AllUsers
    []   k = 2 -> o.DailyUsers
    []   k = 3 -> o.MonthlyUsers
    []   k = 4 -> o.R30Users
    []   k = 5 -> o.R30UsersV2
    []   k = 6 -> o.NonBridgedUsers
    []   k = 7 -> o.RegisteredUsersByType
    []   k = 8 -> o.Version

\* the users with a device last seen after cut
SeenAfter(cut) ==
    { u \in Users : \E d \in devices :
        d.localpart = u /\ d.last_seen_ts > cut }

\* what the k-th sub-computation computes when its query succeeds on the
\* tables as they are, with the clock readings args
Computed(k, args) ==
    CASE k = 1 -> Cardinality(accounts)
    []   k = 2 -> Cardinality(SeenAfter(AddDate(zone, args[1], -1)))
    []   k = 3 -> Cardinality(SeenAfter(AddDate(zone, args[1], -30)))
    []   k = 4 -> ScanRows(EmptyMap,
                           R30UsersRows(zone, args[1], accounts, devices))
    []   k = 5 -> ScanRows(V2Seed,
                           R30UsersV2Rows(zone, args[1], args[2], args[3],
                                          visits))
    []   k = 6 -> Cardinality({ a \in accounts :
                                  a.account_type # AccountTypeAppService })
    []   k = 7 -> ScanTypes(CountRegisteredUserByTypeSQL(accounts,
                                AddDate(zone, args[1], -1)))
    []   k = 8 -> DbVersion

\* C6: UserStatistics runs its sub-computations in the order all-users,
\* daily, monthly, R30, R30V2, non-bridged, registration breakdown, engine
\* version; it stops at the first that fails and returns its error with the
\* values of all earlier ones; it returns no error only if all eight
\* succeeded.
C6_OrderAndFirstFailure ==
    [][ \A k \in 1..Len(Order) : QueryDone(k) =>
          LET o  == stats.out
              o2 == stats'.out
              ok == stats'.last.kind = "ok"
          IN  /\ o2.calls = SubSeq(Order, 1, k)
              /\ \A j \in 1..(k - 1) : StatsField(o2, j) = StatsField(o, j)
              /\ ok => /\ o2.err = "nil"
                       /\ StatsField(o2, k) = Computed(k, stats.args)
              /\ ~ ok => /\ o2.err = Order[k]
                         /\ stats'.kind = "returned"
              /\ stats'.kind = "call" => ok /\ k < Len(Order)
              /\ (stats'.kind = "returned" /\ o2.err = "nil")
                    => k = Len(Order)
      ]_vars

\* C6 witness: the sixth sub-computation failed and the call returned its
\* error with the counts and the R30 map computed before it.
C6_Witness ==
    /\ stats.kind = "returned"
    /\ stats.out.err = "nonBridgedUsers"
    /\ stats.out.calls = SubSeq(Order, 1, 6)
    /\ stats.out.AllUsers > 0
    /\ stats.out.MonthlyUsers > 0
    /\ stats.out.R30Users # EmptyMap

\* the users with two facts of platform p, both inside the lookback window
\* of r30UsersV2, more than 30 days apart
RetainedV2(p) ==
    { u \in Users :
        \E v \in visits : \E w \in visits :
            /\ v.localpart = u /\ w.localpart = u
            /\ V2Platform(v.user_agent) = p /\ V2Platform(w.user_agent) = p
            /\ v.timestamp > now - 60 * Day /\ v.timestamp < now + Day
            /\ w.timestamp > now - 60 * Day /\ w.timestamp < now + Day
            /\ w.timestamp - v.timestamp > 30 * Day }

\* C9 (as claimed): a user is in a platform's bucket of R30V2 exactly when
\* two of the user's facts of that platform in the lookback window are more
\* than 30 days apart; web facts at now-45d and now-10d give web >= 1 and
\* all >= 1, web facts at now-45d and now-20d alone give no count.
C9_GapOver30Days ==
    [][ OkDone(5) =>
          LET r  == stats'.out.R30UsersV2
              d0 == Truncate(stats.t0)
          IN  /\ \A p \in FiveKeys \ {"all"} :
                    r[p] = Cardinality(RetainedV2(p))
              /\ visits = { Fact("u1", "d1", d0 - 45 * Day, UA_Mozilla),
                            Fact("u1", "d1", d0 - 10 * Day, UA_Mozilla) }
                   => r["web"] >= 1 /\ r["all"] >= 1
              /\ visits = { Fact("u1", "d1", d0 - 45 * Day, UA_Mozilla),
                            Fact("u1", "d1", d0 - 20 * Day, UA_Mozilla) }
                   => r["web"] = 0 /\ r["all"] = 0
      ]_vars

\* C10 (as claimed): with one account created 40 days ago, its facts on
\* day-40 and day-5 tagged ios, and no other account or fact, r30Users
\* returns {"all": 1, "ios": 1}.
C10_LedgerScenario ==
    [][ ( /\ OkDone(4)
          /\ accounts = { Row("u1", AccountTypeUser, stats.t0 - 40 * Day,
                              NULL) }
          /\ visits = { Fact("u1", "d1", Truncate(stats.t0) - 40 * Day,
                             UA_iOS),
                        Fact("u1", "d1", Truncate(stats.t0) - 5 * Day,
                             UA_iOS) } )
        => stats'.out.R30Users = [k \in {"all", "ios"} |-> 1] ]_vars

\* the accounts r30Users counts, by the device records: no appservice,
\* created before cut, with a device last seen after cut and more than 30
\* days after the creation
RetainedByDevice(cut) ==
    { a \in accounts :
        /\ a.account_type # AccountTypeAppService
        /\ a.created_ts < cut
        /\ \E d \in devices :
              /\ d.localpart = a.localpart
              /\ d.last_seen_ts > cut
              /\ d.last_seen_ts - a.created_ts > 30 * Day }

\* C10 (amended): r30Users counts something exactly when some account that
\* is no appservice was created before the cutoff (the clock reading moved
\* back 30 calendar days in the zone of the host) and has a device last seen
\* after the cutoff and more than 30 days after the creation; with one such
\* account (created 40 days ago) whose one device was last seen 5 days ago
\* with a client identifier holding "iOS", and no other account or device,
\* it returns {"all": 1, "ios": 1} whatever the ledger holds.
C10_DeviceScenario ==
    [][ OkDone(4) =>
          LET r   == stats'.out.R30Users
              cut == AddDate(zone, stats.args[1], -30)
          IN  /\ (RetainedByDevice(cut) # {}
                    <=> "all" \in DOMAIN r /\ r["all"] >= 1)
              /\ ( /\ accounts = { Row("u1", AccountTypeUser,
                                       stats.t0 - 40 * Day, NULL) }
                   /\ devices = { Dev("u1", "d1", stats.t0 - 5 * Day,
                                      UA_iOS) } )
                 => r = [k \in {"all", "ios"} |-> 1]
      ]_vars

\* C10 witness: r30Users has returned {"all": 1, "ios": 1} over that account
\* and that device with an empty ledger.
C10_Witness ==
    /\ stats.kind = "call"
    /\ stats.out.calls = SubSeq(Order, 1, 4)
    /\ stats.out.err = "nil"
    /\ accounts = { Row("u1", AccountTypeUser, stats.t0 - 40 * Day, NULL) }
    /\ devices = { Dev("u1", "d1", stats.t0 - 5 * Day, UA_iOS) }
    /\ visits = {}
    /\ stats.out.R30Users = [k \in {"all", "ios"} |-> 1]

\* the value read from a Go map: 0 for a key the map lacks
Get(m, k) == IF k \in DOMAIN m THEN m[k] ELSE 0

RECURSIVE SumCounts(_)
SumCounts(R) ==
    IF R = {} THEN 0
    ELSE LET r == CHOOSE x \in R : TRUE IN r[2] + SumCounts(R \ {r})

\* the platform groups the cohort query of r30Users returns, its clock
\* reading taken
LegacyGroups ==
    CountR30UsersSQL(accounts, devices,
                     AddDate(zone, stats.args[1], -30), 30 * Day)

\* the platform groups the cohort query of r30UsersV2 returns, its three
\* clock readings taken
V2Groups ==
    CountR30UsersV2SQL(visits, AddDate(zone, stats.args[1], -60),
                       stats.args[3] + Day,
                       AddDate(zone, stats.args[2], -30))

\* what C11 says of a result r computed from the groups rows
AllSumsEveryGroup(r, rows) ==
    /\ Get(r, "all") = SumCounts(rows)
    /\ \A g \in rows : g[1] # "unknown" => Get(r, g[1]) = g[2]
    /\ \A k \in DOMAIN r \ {"all"} :
          r[k] # 0 => \E g \in rows : g[1] = k
    /\ rows = {<<"unknown", 1>>} =>
          /\ r["all"] = 1
          /\ \A k \in DOMAIN r \ {"all"} : r[k] = 0

\* C11: the maps r30Users and r30UsersV2 return have no key "unknown"; their
\* "all" is the sum of the counts of all the platform groups of the cohort
\* query, the unknown group included, and every other key holds the count
\* of its own group; one cohort user tagged unknown alone gives "all" = 1
\* and nothing under any other key.
C11_AllSumsEveryGroup ==
    [][ /\ QueryDone(4) => "unknown" \notin DOMAIN stats'.out.R30Users
        /\ QueryDone(5) => "unknown" \notin DOMAIN stats'.out.R30UsersV2
        /\ OkDone(4) => AllSumsEveryGroup(stats'.out.R30Users, LegacyGroups)
        /\ OkDone(5) => AllSumsEveryGroup(stats'.out.R30UsersV2, V2Groups)
      ]_vars

\* C11 witness: r30UsersV2 has returned after r30Users, the query of each
\* having returned the one group <<unknown, 1>>, and both maps hold 1 under
\* "all" and under no other key.
C11_Witness ==
    /\ stats.kind = "call"
    /\ stats.out.calls = SubSeq(Order, 1, 5)
    /\ stats.out.err = "nil"
    /\ stats.last.rows = {<<"unknown", 1>>}
    /\ stats.out.R30Users = [k \in {"all"} |-> 1]
    /\ stats.out.R30UsersV2["all"] = 1
    /\ \A k \in FiveKeys \ {"all"} : stats.out.R30UsersV2[k] = 0

\* C12: the map r30UsersV2 returns without an error has exactly the keys
\* ios, android, web, electron and all, whatever user_daily_visits holds;
\* over an empty ledger all five hold 0.
C12_FiveKeysAlways ==
    [][ OkDone(5) =>
          /\ DOMAIN stats'.out.R30UsersV2 =
                {"ios", "android", "web", "electron", "all"}
          /\ visits = {} =>
                \A k \in DOMAIN stats'.out.R30UsersV2 :
                    stats'.out.R30UsersV2[k] = 0
      ]_vars

\* C12 witness: r30UsersV2 has returned without an error over an empty
\* ledger: five keys, all 0.
C12_Witness ==
    /\ stats.kind = "call"
    /\ stats.out.calls = SubSeq(Order, 1, 5)
    /\ stats.out.err = "nil"
    /\ stats.last.rows = {}
    /\ visits = {}
    /\ Cardinality(DOMAIN stats.out.R30UsersV2) = 5
    /\ \A k \in DOMAIN stats.out.R30UsersV2 : stats.out.R30UsersV2[k] = 0

\* the devices of account a that make it a cohort user of r30Users
QualifyingDevices(a, cut) ==
    { d \in devices :
        /\ d.localpart = a.localpart
        /\ d.last_seen_ts > cut
        /\ d.last_seen_ts - a.created_ts > 30 * Day }

\* the Legacy tag of the most recent qualifying activity of cohort user a
LatestTag(a, cut) ==
    LegacyPlatform(
        (CHOOSE d \in QualifyingDevices(a, cut) :
            \A e \in QualifyingDevices(a, cut) :
                e.last_seen_ts <= d.last_seen_ts).user_agent)

\* C17 (as claimed): r30Users counts every cohort user once, under the
\* Legacy tag of the user's most recent qualifying activity, so "all" is
\* the number of cohort users, also when a user has qualifying activity
\* under two platform tags.
C17_OneGroupPerUser ==
    [][ OkDone(4) =>
          LET r   == stats'.out.R30Users
              cut == AddDate(zone, stats.args[1], -30)
          IN  /\ Get(r, "all") = Cardinality(RetainedByDevice(cut))
              /\ \A p \in {"android", "ios", "electron", "web"} :
                    Get(r, p) =
                      Cardinality({ a \in RetainedByDevice(cut) :
                                      LatestTag(a, cut) = p })
      ]_vars

\* C19 (as claimed): the R30UsersV2 map of the statistics UserStatistics
\* returns, with or without an error and whichever query failed, has the
\* keys ios, android, web, electron and all.
C19_FiveKeysOnError ==
    stats.kind = "returned" =>
        {"ios", "android", "web", "electron", "all"}
            \subseteq DOMAIN stats.out.R30UsersV2

-----------------------------------------------------------------------------
(* Properties of the classifiers *)

\* the identifier classified holds pat, whatever the letter case of either
Holds(pat) == Like(Lower(stats.ua), Lower(pat))

\* C13 (as claimed): the Legacy classifier matches whatever the letter case,
\* the first match winning in the order android, ios, electron, web (Mozilla
\* or Gecko), unknown: "android" in any letter case gives android, "iOS"
\* with "Mozilla" gives ios, the empty identifier and an identifier without
\* any of the five words give unknown.
C13_LegacyAnyCase ==
    stats.kind = "legacy" =>
        /\ Holds(P_Android) => stats.tag = "android"
        /\ ~ Holds(P_Android) /\ Holds(P_iOS) => stats.tag = "ios"
        /\ ~ Holds(P_Android) /\ ~ Holds(P_iOS) /\ Holds(P_Electron)
              => stats.tag = "electron"
        /\ ( /\ ~ Holds(P_Android) /\ ~ Holds(P_iOS) /\ ~ Holds(P_Electron)
             /\ (Holds(P_Mozilla) \/ Holds(P_Gecko)) )
              => stats.tag = "web"
        /\ ( /\ ~ Holds(P_Android) /\ ~ Holds(P_iOS) /\ ~ Holds(P_Electron)
             /\ ~ Holds(P_Mozilla) /\ ~ Holds(P_Gecko) )
              => stats.tag = "unknown"
        /\ stats.ua = <<>> => stats.tag = "unknown"

\* C14: in the V2 classifier an identifier holding "riot" or "element" (in
\* any letter case) is electron, android or ios by the first of these words
\* it holds, in that order, and unknown when it holds none of them, also when
\* it holds "mozilla" or "gecko"; an identifier without riot and element is
\* web exactly when it holds "mozilla" or "gecko" and unknown otherwise, the
\* empty identifier included.
C14_V2RiotBeforeWeb ==
    stats.kind = "v2" =>
        LET client == Holds(<<"r","i","o","t">>)
                      \/ Holds(<<"e","l","e","m","e","n","t">>)
            web    == Holds(P_Mozilla) \/ Holds(P_Gecko)
        IN  /\ client /\ Holds(P_Electron) => stats.tag = "electron"
            /\ client /\ ~ Holds(P_Electron) /\ Holds(P_Android)
                  => stats.tag = "android"
            /\ ( /\ client /\ ~ Holds(P_Electron) /\ ~ Holds(P_Android)
                 /\ Holds(P_iOS) ) => stats.tag = "ios"
            /\ ( /\ client /\ ~ Holds(P_Electron) /\ ~ Holds(P_Android)
                 /\ ~ Holds(P_iOS) ) => stats.tag = "unknown"
            /\ ~ client => (stats.tag = "web" <=> web)
            /\ ~ client /\ ~ web => stats.tag = "unknown"
            /\ stats.ua = <<>> => stats.tag = "unknown"

\* C14 witness: an identifier holding "Riot" and "Mozilla" and none of
\* electron, android, ios was classified unknown.
C14_Witness ==
    /\ stats.kind = "v2"
    /\ Holds(<<"r","i","o","t">>) /\ Holds(P_Mozilla)
    /\ ~ Holds(P_Electron) /\ ~ Holds(P_Android) /\ ~ Holds(P_iOS)
    /\ stats.tag = "unknown"

====
